---- MODULE Spec2Model ----
(***************************************************************************)
(* GreynirTopic: the staged topic-model pipeline of greynir_topic/model.py *)
(* and the tuple front end of greynir_topic/tuplemodel.py.                 *)
(*                                                                         *)
(* One Model instance (of class TupleModel, so that both topic_vector      *)
(* methods exist on it) works on one model directory.  The state is the    *)
(* directory with its artifact files, the three in-memory slots of the     *)
(* instance, the position of a running train() call and a record of the    *)
(* last call made on the instance.                                         *)
(*                                                                         *)
(* Text is modelled by what the code does with it: a Python str is a       *)
(* sequence of one-character strings, so that lower(), replace(), the      *)
(* "/" membership test, tuple unpacking of a str and sorted() are          *)
(* computed and not assumed.  The numerical library (Gensim) is modelled   *)
(* at its boundary: the vocabulary is computed exactly, TF-IDF weights     *)
(* and LSI projections are kept as symbolic terms of the data they are     *)
(* fitted from.                                                            *)
(***************************************************************************)
EXTENDS Integers, Sequences, FiniteSets, TLC

----------------------------------------------------------------------------
(* Bounds of the model *)

\* A corpus has at most this many documents and lemma occurrences together
MaxCorpusSize == 5
\* A topic_vector argument has at most this many elements
MaxQueryLen == 2
\* The longest lemma given to the normalizer
MaxLemmaLen == 3
\* A text has at most this many sentences and tokens together
MaxDocSize == 6

----------------------------------------------------------------------------
(* Python values *)

\* Python's None, as the value of an empty in-memory slot or of a call
\* that returns nothing
None == [none |-> TRUE]
\* A file that does not exist
Absent == [absent |-> TRUE]

\* Code points of the characters used (str comparison is by code point)
Ord(c) ==
  CASE c = " " -> 32
    [] c = "-" -> 45
    [] c = "/" -> 47
    [] c = "A" -> 65
    [] c = "_" -> 95
    [] c = "a" -> 97
    [] c = "b" -> 98
    [] c = "c" -> 99
    [] c = "x" -> 120

\* s < t for two str values
RECURSIVE StrLess(_, _)
StrLess(s, t) ==
  IF s = <<>> THEN t # <<>>
  ELSE IF t = <<>> THEN FALSE
  ELSE IF Head(s) = Head(t) THEN StrLess(Tail(s), Tail(t))
  ELSE Ord(Head(s)) < Ord(Head(t))

\* sorted(S) for a set of str values
RECURSIVE SortedStrings(_)
SortedStrings(S) ==
  IF S = {} THEN <<>>
  ELSE LET m == CHOOSE x \in S : \A y \in S \ {x} : StrLess(x, y)
       IN  <<m>> \o SortedStrings(S \ {m})

\* sorted(S) for a set of integers
RECURSIVE SortedInts(_)
SortedInts(S) ==
  IF S = {} THEN <<>>
  ELSE LET m == CHOOSE x \in S : \A y \in S : x <= y
       IN  <<m>> \o SortedInts(S \ {m})

\* The position of x in the sequence q (x occurs in q)
IndexOf(q, x) == CHOOSE i \in DOMAIN q : q[i] = x

\* The elements of a sequence
Elems(q) == {q[i] : i \in DOMAIN q}

\* The number of occurrences of w in the sequence q
Count(q, w) == Cardinality({i \in DOMAIN q : q[i] = w})

\* All sequences over S of length at most n
SeqsUpTo(S, n) == UNION {[1..k -> S] : k \in 0..n}

\* A str element and a (lemma, category) tuple element of an argument list
PyStr(s) == [t |-> "str", s |-> s]
PyTuple(lemma, cat) == [t |-> "tuple", lemma |-> lemma, cat |-> cat]

----------------------------------------------------------------------------
(* tuplemodel.py: the key normalizer *)

\* str.lower() on one character
LowerChar(c) == IF c = "A" THEN "a" ELSE c

\* str.lower()
Lower(s) == [i \in DOMAIN s |-> LowerChar(s[i])]

\* s.replace("-", "")
RECURSIVE RemoveHyphens(_)
RemoveHyphens(s) ==
  IF s = <<>> THEN <<>>
  ELSE IF Head(s) = "-" THEN RemoveHyphens(Tail(s))
  ELSE <<Head(s)>> \o RemoveHyphens(Tail(s))

\* s.replace(" ", "_")
SpacesToUnderscores(s) == [i \in DOMAIN s |-> IF s[i] = " " THEN "_" ELSE s[i]]

\* A normalizer that leaves the hyphens in
w_from_lemma_HyphensKept(lemma, cat) ==
  SpacesToUnderscores(Lower(lemma)) \o <<"/">> \o cat

\* A normalizer that lower-cases the key as a whole
w_from_lemma_LowerAll(lemma, cat) ==
  Lower(SpacesToUnderscores(RemoveHyphens(lemma)) \o <<"/">> \o cat)

\* w_from_lemma(lemma, cat)
w_from_lemma(lemma, cat) ==
  SpacesToUnderscores(RemoveHyphens(Lower(lemma))) \o <<"/">> \o cat

----------------------------------------------------------------------------
(* model.py: Dictionary (gensim.corpora.Dictionary as the code uses it) *)

\* A function with no arguments (an empty dict)
EmptyMap == [x \in {} |-> 0]

\* A Dictionary before any document is added
EmptyDictionary == [token2id |-> EmptyMap, dfs |-> EmptyMap, num_docs |-> 0]

\* Dictionary.__contains__
Contains(dic, word) == word \in DOMAIN dic.token2id

\* Dictionary.doc2bow(document, allow_update=True) as Dictionary.__init__
\* applies it to one document: new tokens get the next ids in sorted order,
\* every token of the document counts once in dfs, num_docs grows by one
AddDocument(dic, document) ==
  LET old     == DOMAIN dic.token2id
      missing == SortedStrings(Elems(document) \ old)
      t2i     == [w \in old \cup Elems(document) |->
                    IF w \in old THEN dic.token2id[w]
                    ELSE Cardinality(old) + IndexOf(missing, w) - 1]
      ids     == {t2i[w] : w \in Elems(document)}
      dfs     == [i \in DOMAIN dic.dfs \cup ids |->
                    (IF i \in DOMAIN dic.dfs THEN dic.dfs[i] ELSE 0)
                    + (IF i \in ids THEN 1 ELSE 0)]
  IN  [token2id |-> t2i, dfs |-> dfs, num_docs |-> dic.num_docs + 1]

\* Dictionary(iterator): add_documents over what the iterator yields
RECURSIVE AddDocuments(_, _)
AddDocuments(dic, documents) ==
  IF documents = <<>> THEN dic
  ELSE AddDocuments(AddDocument(dic, Head(documents)), Tail(documents))

\* doc2bow that notes the presence of a token and not its multiplicity
doc2bow_Presence(dic, document) ==
  LET known == {w \in Elems(document) : w \in DOMAIN dic.token2id}
      ids   == SortedInts({dic.token2id[w] : w \in known})
  IN  [k \in DOMAIN ids |-> <<ids[k], 1>>]

\* doc2bow that stops reading the document at the first token that is not
\* in the dictionary
doc2bow_UntilUnknown(dic, document) ==
  LET unknown == {i \in DOMAIN document : document[i] \notin DOMAIN dic.token2id}
      read  == IF unknown = {} THEN document
               ELSE SubSeq(document, 1,
                           (CHOOSE i \in unknown : \A j \in unknown : i <= j) - 1)
      known == Elems(read)
      ids   == SortedInts({dic.token2id[w] : w \in known})
      word(i) == CHOOSE w \in known : dic.token2id[w] = i
  IN  [k \in DOMAIN ids |-> <<ids[k], Count(read, word(ids[k]))>>]

\* Dictionary.doc2bow(document): the (id, count) pairs of the tokens that
\* are in the dictionary, sorted by id
doc2bow(dic, document) ==
  LET known == {w \in Elems(document) : Contains(dic, w)}
      ids   == SortedInts({dic.token2id[w] : w \in known})
      word(i) == CHOOSE w \in known : dic.token2id[w] = i
  IN  [k \in DOMAIN ids |-> <<ids[k], Count(document, word(ids[k]))>>]

\* The limit rounded up where the code truncates
NoAboveAbs_RoundedUp(max_ratio, num_docs) == (max_ratio * num_docs + 99) \div 100

\* int(no_above * num_docs), the ratio given in percent
NoAboveAbs(max_ratio, num_docs) == (max_ratio * num_docs) \div 100

\* Dictionary.filter_extremes(no_below, no_above, keep_n=None): keep the
\* tokens with no_below <= df <= int(no_above * num_docs), then compactify
\* the ids (order of the old ids kept)
filter_extremes(dic, no_below, no_above) ==
  LET good  == {i \in DOMAIN dic.dfs :
                  /\ no_below <= dic.dfs[i]
                  /\ dic.dfs[i] <= NoAboveAbs(no_above, dic.num_docs)}
      kept  == {w \in DOMAIN dic.token2id : dic.token2id[w] \in good}
      order == SortedInts(good)
      idmap == [i \in good |-> IndexOf(order, i) - 1]
  IN  [token2id |-> [w \in kept |-> idmap[dic.token2id[w]]],
       dfs      |-> [j \in {idmap[i] : i \in good} |->
                       dic.dfs[CHOOSE i \in good : idmap[i] = j]],
       num_docs |-> dic.num_docs]

----------------------------------------------------------------------------
(* model.py: CorpusIterator *)

\* CorpusIterator._xform: doc2bow with a dictionary, the identity without
xform(dic, x) == IF dic # None THEN doc2bow(dic, x) ELSE x

\* An iterator that yields an element for every document, empty or not
CorpusIterator_KeepEmpty(corpus, dic) ==
  [i \in DOMAIN corpus |-> IF dic # None THEN doc2bow(dic, corpus[i]) ELSE corpus[i]]

\* CorpusIterator.__iter__: what iterating yields, as a sequence
RECURSIVE CorpusIterator(_, _)
CorpusIterator(corpus, dic) ==
  IF corpus = <<>> THEN <<>>
  ELSE LET lemmas == Head(corpus)
           rest   == CorpusIterator(Tail(corpus), dic)
       IN  IF lemmas # <<>> THEN <<xform(dic, lemmas)>> \o rest ELSE rest

----------------------------------------------------------------------------
(* The weighting model and the reduced-space model (Gensim's TfidfModel   *)
(* and LsiModel as the code uses them)                                    *)

\* Default number of dimensions in topic vectors
DEFAULT_DIMENSIONS == 200

\* models.TfidfModel(dictionary=dic): the document frequencies and the
\* document count the idf weights log2(num_docs / df) are computed from
TfidfModel(dic) == [dfs |-> dic.dfs, num_docs |-> dic.num_docs]

\* The greatest common divisor of a non-empty set of positive integers
GCD(S) == CHOOSE g \in 1..(CHOOSE x \in S : TRUE) :
            /\ \A x \in S : x % g = 0
            /\ \A h \in 1..(CHOOSE x \in S : TRUE) :
                 (\A x \in S : x % h = 0) => h <= g

\* The entries of a sequence that satisfy keep, in order
RECURSIVE SelectIdx(_, _)
SelectIdx(q, keep) ==
  IF q = <<>> THEN <<>>
  ELSE IF Head(q)[1] \in keep THEN <<Head(q)>> \o SelectIdx(Tail(q), keep)
  ELSE SelectIdx(Tail(q), keep)

\* tfidf[bag]: the entries whose id has a non-zero idf (df < num_docs),
\* weighted tf * idf and normalised to unit length.  A weight is kept as
\* the term <<id, tf, df, num_docs>>; the normalisation divides the term
\* frequencies by their common divisor, so that proportional vectors are
\* one vector
TfidfApply(tm, bag) ==
  LET nonzero == {i \in DOMAIN tm.dfs : tm.dfs[i] # tm.num_docs}
      kept    == SelectIdx(bag, nonzero)
      g       == GCD({kept[k][2] : k \in DOMAIN kept})
  IN  IF kept = <<>> THEN <<>>
      ELSE [k \in DOMAIN kept |->
              <<kept[k][1], kept[k][2] \div g, tm.dfs[kept[k][1]], tm.num_docs>>]

\* The empty Topic Vector []
EmptyVector == [tv |-> "empty"]

\* models.LsiModel(corpus_tfidf, id2word=dic, num_topics=dimensions): the
\* projection is a function of the weighted corpus it is fitted from
LsiModel(corpus_tfidf, dic, dimensions) ==
  [docs      |-> corpus_tfidf,
   num_terms |-> Cardinality(DOMAIN dic.token2id),
   num_topics |-> dimensions]

\* The term ids with a non-zero weight in some document of the corpus the
\* projection was fitted from (the other terms have a zero row in it)
LsiTerms(lsi) ==
  UNION {{lsi.docs[d][k][1] : k \in DOMAIN lsi.docs[d]} : d \in DOMAIN lsi.docs}

\* Whether lsi[vec] raises: a term id outside the projection's terms, or a
\* projection fitted from no document at all
LsiRaises(lsi, vec) ==
  \/ lsi.docs = <<>>
  \/ \E k \in DOMAIN vec : vec[k][1] >= lsi.num_terms

\* lsi[vec] where it does not raise: empty when no term of vec has a
\* non-zero row in the projection, else the projection of vec
LsiApply(lsi, vec) ==
  IF \A k \in DOMAIN vec : vec[k][1] \notin LsiTerms(lsi)
  THEN EmptyVector
  ELSE [tv |-> "lsi", lsi |-> lsi, of |-> vec]

----------------------------------------------------------------------------
(* model.py: Model.  A method is an operator from the state m it is called *)
(* in (the directory, the files, the three slots, the events of the       *)
(* running call) to an outcome: the state it leaves, the exception it     *)
(* raises ("" for none) and the value it returns.                         *)

\* The extensions of the files of a model
Exts == {"dict", "corpus", "corpus.index", "corpus-tfidf",
         "corpus-tfidf.index", "tfidf", "lsi"}

\* A method returns ret in state m
Return(m, ret) == [m |-> m, exc |-> "", ret |-> ret]

\* A method raises exc in state m
Raise(m, exc) == [m |-> m, exc |-> exc, ret |-> None]

\* State m with one more event of the running call
Event(m, e) == [m EXCEPT !.events = Append(@, e)]

\* Writing a file of the model: fails when the directory does not exist
Save(m, ext, content) ==
  IF ~m.dirExists THEN Raise(m, "FileNotFoundError")
  ELSE Return(Event([m EXCEPT !.files[ext] = content], <<"save", ext>>), None)

\* os.remove of a file of the model
Remove(m, ext) ==
  IF m.files[ext] = Absent THEN Raise(m, "FileNotFoundError")
  ELSE Return(Event([m EXCEPT !.files[ext] = Absent], <<"remove", ext>>), None)

\* A train() that takes the directory for granted
MakeDirs_Skipped(m) == Event(m, <<"makedirs">>)

\* os.makedirs(self._DIRECTORY), FileExistsError passed over
MakeDirs(m) == Event([m EXCEPT !.dirExists = TRUE], <<"makedirs">>)

\* corpora.MmCorpus.serialize(fname, docs): the corpus file and its index
Serialize(m, ext, docs) ==
  LET r == Save(m, ext, [docs |-> docs])
  IN  IF r.exc # "" THEN r
      ELSE Save(r.m, ext \o ".index", [offsets |-> Len(docs)])

\* train_dictionary that saves the vocabulary before it looks at its size
train_dictionary_SaveFirst(m, corpus, min_count, max_ratio) ==
  LET built == AddDocuments(EmptyDictionary, CorpusIterator(corpus, None))
      dic   == IF min_count > 0 \/ max_ratio < 100
               THEN filter_extremes(built, min_count, max_ratio)
               ELSE built
      r     == Save(m, "dict", dic)
  IN  IF r.exc # "" THEN r
      ELSE IF ~(Cardinality(DOMAIN dic.token2id) > 0)
      THEN Raise(r.m, "AssertionError")
      ELSE Return([r.m EXCEPT !.dictionary = dic], None)

\* Model.train_dictionary(corpus_iterator, min_count, max_ratio), the
\* iterator given as the corpus it runs over (it has no dictionary)
train_dictionary(m, corpus, min_count, max_ratio) ==
  LET built == AddDocuments(EmptyDictionary, CorpusIterator(corpus, None))
      dic   == IF min_count > 0 \/ max_ratio < 100
               THEN filter_extremes(built, min_count, max_ratio)
               ELSE built
  IN  IF ~(Cardinality(DOMAIN dic.token2id) > 0)
      THEN Raise(m, "AssertionError")
      ELSE LET r == Save(m, "dict", dic)
           IN  IF r.exc # "" THEN r
               ELSE Return([r.m EXCEPT !.dictionary = dic], None)

\* Model.load_dictionary
load_dictionary(m) ==
  IF m.files["dict"] = Absent THEN Raise(m, "FileNotFoundError")
  ELSE Return(Event([m EXCEPT !.dictionary = m.files["dict"]],
                    <<"load", "dict">>), None)

\* Model.train_plain_corpus(corpus_iterator), the iterator given as its
\* corpus and its dictionary.  Without a dictionary the iterator yields
\* lists of str, and writing the first of them as a vector raises after the
\* file has been opened for writing
train_plain_corpus(m, corpus, dic) ==
  IF dic = None /\ CorpusIterator(corpus, dic) # <<>>
  THEN LET r == Save(m, "corpus", [truncated |-> TRUE])
       IN  IF r.exc # "" THEN r ELSE Raise(r.m, "ValueError")
  ELSE Serialize(m, "corpus", CorpusIterator(corpus, dic))

\* Model.train_tfidf_model
train_tfidf_model(m) ==
  LET r == IF m.dictionary = None THEN load_dictionary(m) ELSE Return(m, None)
  IN  IF r.exc # "" THEN r
      ELSE LET tm == TfidfModel(r.m.dictionary)
               s  == Save(r.m, "tfidf", tm)
           IN  IF s.exc # "" THEN s
               ELSE Return([s.m EXCEPT !.tfidf = tm], None)

\* A load that takes the file away
load_tfidf_model_Consuming(m) ==
  IF m.files["tfidf"] = Absent THEN Raise(m, "FileNotFoundError")
  ELSE Return(Event([m EXCEPT !.tfidf = m.files["tfidf"],
                              !.files["tfidf"] = Absent],
                    <<"load", "tfidf">>), None)

\* Model.load_tfidf_model
load_tfidf_model(m) ==
  IF m.files["tfidf"] = Absent THEN Raise(m, "FileNotFoundError")
  ELSE Return(Event([m EXCEPT !.tfidf = m.files["tfidf"]],
                    <<"load", "tfidf">>), None)

\* Model.train_tfidf_corpus
train_tfidf_corpus(m) ==
  LET r == IF m.tfidf = None THEN load_tfidf_model(m) ELSE Return(m, None)
  IN  IF r.exc # "" THEN r
      ELSE IF r.m.files["corpus"] = Absent THEN Raise(r.m, "FileNotFoundError")
      ELSE IF r.m.files["corpus"] = [truncated |-> TRUE] THEN Raise(r.m, "ValueError")
      ELSE LET plain == r.m.files["corpus"].docs
           IN  Serialize(r.m, "corpus-tfidf",
                         [d \in DOMAIN plain |-> TfidfApply(r.m.tfidf, plain[d])])

\* Whether fitting an LSI model can fail on this weighted corpus, and
\* whether it can succeed.  A corpus without a single non-zero weight gives
\* the decomposition a zero matrix, and what the numerical library makes
\* of that is not decided by this code: both outcomes are possible
LsiFitOutcomes(corpus_tfidf) ==
  IF \A d \in DOMAIN corpus_tfidf : corpus_tfidf[d] = <<>>
  THEN {TRUE, FALSE}
  ELSE {TRUE}

\* Model.train_lsi_model where the fit succeeds (fit) or fails
train_lsi_model(m, fit) ==
  IF m.files["corpus-tfidf"] = Absent THEN Raise(m, "FileNotFoundError")
  ELSE
    LET corpus_tfidf == m.files["corpus-tfidf"].docs
        r == IF m.dictionary = None THEN load_dictionary(m) ELSE Return(m, None)
    IN  IF r.exc # "" THEN r
        ELSE IF ~fit THEN Raise(r.m, "LinAlgError")
        ELSE Save(r.m, "lsi",
                  LsiModel(corpus_tfidf, r.m.dictionary, r.m.dimensions))

\* load_lsi_model that makes up for a missing file with a model fitted
\* from nothing
load_lsi_model_Fallback(m) ==
  IF m.files["lsi"] = Absent
  THEN LET made == LsiModel(<<>>, EmptyDictionary, m.dimensions)
           r    == Save(m, "lsi", made)
       IN  IF r.exc # "" THEN r ELSE Return([r.m EXCEPT !.model = made], None)
  ELSE Return(Event([m EXCEPT !.model = m.files["lsi"]],
                    <<"load", "lsi">>), None)

\* Model.load_lsi_model
load_lsi_model(m) ==
  IF m.files["lsi"] = Absent THEN Raise(m, "FileNotFoundError")
  ELSE Return(Event([m EXCEPT !.model = m.files["lsi"]],
                    <<"load", "lsi">>), None)

\* A removal that leaves the index files behind
remove_temp_files_NoIndex(m) ==
  LET r1 == Remove(m, "corpus")
  IN  IF r1.exc # "" THEN r1 ELSE Remove(r1.m, "corpus-tfidf")

\* The removal of the intermediate files at the end of Model.train
remove_temp_files(m) ==
  LET r1 == Remove(m, "corpus")
      r2 == IF r1.exc # "" THEN r1 ELSE Remove(r1.m, "corpus-tfidf")
      r3 == IF r2.exc # "" THEN r2 ELSE Remove(r2.m, "corpus.index")
  IN  IF r3.exc # "" THEN r3 ELSE Remove(r3.m, "corpus-tfidf.index")

\* Loading at every call, whatever the slots hold
LoadArtifacts_Always(m) ==
  LET r1 == load_dictionary(m)
      r2 == IF r1.exc # "" THEN r1 ELSE load_tfidf_model(r1.m)
  IN  IF r2.exc # "" THEN r2 ELSE load_lsi_model(r2.m)

\* Model.topic_vector, the three "if self._x is None: self.load_x()"
LoadArtifacts(m) ==
  LET r1 == IF m.dictionary = None THEN load_dictionary(m) ELSE Return(m, None)
      r2 == IF r1.exc # "" THEN r1
            ELSE IF r1.m.tfidf = None THEN load_tfidf_model(r1.m)
            ELSE r1
  IN  IF r2.exc # "" THEN r2
      ELSE IF r2.m.model = None THEN load_lsi_model(r2.m)
      ELSE r2

\* The transforms applied to an empty bag as to any other
BagToVector_NoEmptyCheck(m, bag) ==
  LET m4    == Event(m, <<"tfidf">>)
      tfidf == TfidfApply(m4.tfidf, bag)
  IN  IF LsiRaises(m4.model, tfidf) THEN Raise(m4, "IndexError")
      ELSE Return(Event(m4, <<"lsi">>), LsiApply(m4.model, tfidf))

\* Model.topic_vector from the bag on: "if not bag: return []", then
\* self._model[self._tfidf[bag]]
BagToVector(m, bag) ==
  IF bag = <<>> THEN Return(m, EmptyVector)
  ELSE
    LET m4    == Event(m, <<"tfidf">>)
        tfidf == TfidfApply(m4.tfidf, bag)
    IN  IF LsiRaises(m4.model, tfidf) THEN Raise(m4, "IndexError")
        ELSE Return(Event(m4, <<"lsi">>), LsiApply(m4.model, tfidf))

\* topic_vector without the early return for an empty list
topic_vector_NoEarlyReturn(m, lemmas) ==
  LET r == LoadArtifacts(m)
  IN  IF r.exc # "" THEN r
      ELSE IF \E i \in DOMAIN lemmas : lemmas[i].t # "str"
      THEN Raise(r.m, "TypeError")
      ELSE LET m3 == Event(r.m, <<"doc2bow">>)
           IN  BagToVector(m3, doc2bow(m3.dictionary,
                                       [i \in DOMAIN lemmas |-> lemmas[i].s]))

\* Model.topic_vector(lemmas), lemmas a list of str and tuple elements
topic_vector(m, lemmas) ==
  IF lemmas = <<>> THEN Return(m, EmptyVector)
  ELSE
    LET r == LoadArtifacts(m)
    IN  IF r.exc # "" THEN r
        \* doc2bow decodes every element that is not a str as bytes
        ELSE IF \E i \in DOMAIN lemmas : lemmas[i].t # "str"
        THEN Raise(r.m, "TypeError")
        ELSE LET m3 == Event(r.m, <<"doc2bow">>)
             IN  BagToVector(m3, doc2bow(m3.dictionary,
                                         [i \in DOMAIN lemmas |-> lemmas[i].s]))

\* A cosine that takes two equal vectors for similar, empty or not
similarity_EmptyIsEqual(topic_vector_a, topic_vector_b) ==
  IF topic_vector_a = topic_vector_b THEN [permille |-> 1000]
  ELSE IF topic_vector_a = EmptyVector \/ topic_vector_b = EmptyVector
  THEN [permille |-> 0]
  ELSE [cossim |-> {topic_vector_a, topic_vector_b}]

\* Model.similarity: matutils.cossim, which is 0.0 when one of the vectors
\* is empty and 1.0 (up to rounding) for a non-empty vector and itself; the
\* cosine of two different vectors is kept as a term.  A number is given in
\* thousandths
similarity(topic_vector_a, topic_vector_b) ==
  IF topic_vector_a = EmptyVector \/ topic_vector_b = EmptyVector
  THEN [permille |-> 0]
  ELSE IF topic_vector_a = topic_vector_b THEN [permille |-> 1000]
  ELSE [cossim |-> {topic_vector_a, topic_vector_b}]

----------------------------------------------------------------------------
(* tuplemodel.py: TupleModel *)

\* for lemma, cat in lemmas: what unpacking one element gives, as a tuple
\* element (a str of two characters unpacks into its characters)
Unpack(e) ==
  IF e.t = "tuple" THEN e ELSE PyTuple(<<e.s[1]>>, <<e.s[2]>>)

\* Whether unpacking the element into (lemma, cat) raises
UnpackRaises(e) == e.t = "str" /\ Len(e.s) # 2

\* "/" in lemma, for a str (a substring test) and for a tuple (one of its
\* items equals "/")
HasSlash(e) ==
  IF e.t = "str" THEN \E i \in DOMAIN e.s : e.s[i] = "/"
  ELSE e.lemma = <<"/">> \/ e.cat = <<"/">>

\* TupleDocument.__iter__: the keys a document yields for the tuples that
\* its gen_tuples gives
TupleDocument(tuples) ==
  [i \in DOMAIN tuples |-> w_from_lemma(tuples[i].lemma, tuples[i].cat)]

\* Keys made by joining lemma and category as they are
TupleKeys_Joined(lemmas) ==
  [i \in DOMAIN lemmas |->
     PyStr(Unpack(lemmas[i]).lemma \o <<"/">> \o Unpack(lemmas[i]).cat)]

\* [w_from_lemma(lemma, cat) for lemma, cat in lemmas]
TupleKeys(lemmas) ==
  [i \in DOMAIN lemmas |->
     PyStr(w_from_lemma(Unpack(lemmas[i]).lemma, Unpack(lemmas[i]).cat))]

\* TupleModel.topic_vector(lemmas)
tuple_topic_vector(m, lemmas) ==
  IF lemmas = <<>> THEN Return(m, EmptyVector)
  ELSE IF lemmas[1].t = "tuple"
  THEN IF \E i \in DOMAIN lemmas : UnpackRaises(lemmas[i])
       THEN Raise(m, "ValueError")
       ELSE topic_vector(m, TupleKeys(lemmas))
  ELSE IF ~(\A i \in DOMAIN lemmas : HasSlash(lemmas[i]))
       THEN Raise(m, "AssertionError")
       ELSE topic_vector(m, lemmas)

----------------------------------------------------------------------------
(* The inputs *)

\* The vocabulary keys the documents of a corpus are made of
DocKeys == {<<"a", "/", "x">>, <<"b", "/", "x">>}

\* The corpora of at most n documents and lemma occurrences together
RECURSIVE CorporaOfSize(_)
CorporaOfSize(n) ==
  {<<>>} \cup
  UNION {{<<d>> \o c : c \in CorporaOfSize(n - 1 - Len(d))} :
           d \in SeqsUpTo(DocKeys, n - 1)}

Corpora == CorporaOfSize(MaxCorpusSize)

\* The elements of a topic_vector argument: a key of the documents, a key
\* no document has, a str without the separator, a tuple
QueryElems ==
  {PyStr(<<"a", "/", "x">>), PyStr(<<"c", "/", "x">>), PyStr(<<"b", "x">>),
   PyTuple(<<"A", "-">>, <<"x">>)}

Queries == SeqsUpTo(QueryElems, MaxQueryLen)

\* The default of train's max_ratio, 0.5, in percent
DEFAULT_MAX_RATIO == 50

\* The values of min_count and of max_ratio (in percent) train is called with
MinCounts == {0, 2}
MaxRatios == {50, 100}

----------------------------------------------------------------------------
(* The state *)

VARIABLES
  corpus,      \* the Corpus the caller trains on
  dirExists,   \* whether the model directory exists
  files,       \* the content of each file of the model, or Absent
  dictionary,  \* Model._dictionary
  tfidf,       \* Model._tfidf
  model,       \* Model._model
  pc,          \* "idle", the step a running train() is about to take, or
               \* "returned" when a call has ended and the caller holds
               \* its outcome
  args,        \* the arguments of the running or last train()
  events,      \* what the running or last call did, in order
  lastCall     \* the running or last call: its name, argument and outcome

vars == <<corpus, dirExists, files, dictionary, tfidf, model, pc, args,
          events, lastCall>>

\* The state a method is called in, with no event yet
Me == [dirExists |-> dirExists, files |-> files, dictionary |-> dictionary,
       tfidf |-> tfidf, model |-> model, dimensions |-> DEFAULT_DIMENSIONS,
       events |-> <<>>]

\* The same within a running train(): the events so far are kept
MeTraining == [Me EXCEPT !.events = events]

\* The slots that are empty
EmptySlots ==
  {x \in {"dict", "tfidf", "lsi"} :
     \/ x = "dict" /\ dictionary = None
     \/ x = "tfidf" /\ tfidf = None
     \/ x = "lsi" /\ model = None}

\* The state a method leaves becomes the state
Becomes(m) ==
  /\ dirExists' = m.dirExists
  /\ files' = m.files
  /\ dictionary' = m.dictionary
  /\ tfidf' = m.tfidf
  /\ model' = m.model
  /\ events' = m.events

\* The record of a call that has ended with outcome r
Called(op, arg, r) ==
  [op |-> op, arg |-> arg, exc |-> r.exc, ret |-> r.ret, pre |-> EmptySlots]

NoArgs == [keep_temp_files |-> FALSE, min_count |-> 0, max_ratio |-> 0]

NoCall == [op |-> "", arg |-> <<>>, exc |-> "", ret |-> None, pre |-> {}]

Init ==
  /\ corpus \in Corpora
  /\ dirExists \in BOOLEAN
  /\ files = [e \in Exts |-> Absent]
  /\ dictionary = None
  /\ tfidf = None
  /\ model = None
  /\ pc = "idle"
  /\ args = NoArgs
  /\ events = <<>>
  /\ lastCall = NoCall

----------------------------------------------------------------------------
(* The operations *)

\* Model.__init__: a fresh instance on the same name and directory takes
\* the place of the instance
ModelInit ==
  /\ pc = "idle"
  /\ dictionary' = None
  /\ tfidf' = None
  /\ model' = None
  /\ \/ dictionary # None
     \/ tfidf # None
     \/ model # None
  /\ UNCHANGED <<corpus, dirExists, files, pc, args, events, lastCall>>

\* A step of train() with outcome r goes on to step next, or ends the call
\* when it raises
TrainStep(r, next) ==
  /\ Becomes(r.m)
  /\ pc' = IF r.exc # "" THEN "returned" ELSE next
  /\ lastCall' = [lastCall EXCEPT !.exc = r.exc]
  /\ UNCHANGED <<corpus, args>>

\* Model.train(corpus, keep_temp_files, min_count, max_ratio) is called and
\* makes sure that the models directory exists
TrainBegin(keep_temp_files, min_count, max_ratio) ==
  /\ pc = "idle"
  /\ args' = [keep_temp_files |-> keep_temp_files, min_count |-> min_count,
              max_ratio |-> max_ratio]
  /\ Becomes(MakeDirs(Me))
  /\ pc' = "train_dictionary"
  /\ lastCall' = [op |-> "train", arg |-> <<>>, exc |-> "", ret |-> None,
                  pre |-> EmptySlots]
  /\ UNCHANGED corpus

\* train(): self.train_dictionary(CorpusIterator(corpus, dictionary=None), ...)
TrainDictionary ==
  /\ pc = "train_dictionary"
  /\ TrainStep(train_dictionary(MeTraining, corpus, args.min_count, args.max_ratio),
               "train_plain_corpus")

\* train(): self.train_plain_corpus(CorpusIterator(corpus, self._dictionary))
TrainPlainCorpus ==
  /\ pc = "train_plain_corpus"
  /\ TrainStep(train_plain_corpus(MeTraining, corpus, dictionary),
               "train_tfidf_model")

\* train(): self.train_tfidf_model()
TrainTfidfModel ==
  /\ pc = "train_tfidf_model"
  /\ TrainStep(train_tfidf_model(MeTraining), "train_tfidf_corpus")

\* train(): self.train_tfidf_corpus()
TrainTfidfCorpus ==
  /\ pc = "train_tfidf_corpus"
  /\ TrainStep(train_tfidf_corpus(MeTraining), "train_lsi_model")

\* train(): self.train_lsi_model()
TrainLsiModel ==
  /\ pc = "train_lsi_model"
  /\ \E fit \in LsiFitOutcomes(IF files["corpus-tfidf"] = Absent THEN <<>>
                                ELSE files["corpus-tfidf"].docs) :
       TrainStep(train_lsi_model(MeTraining, fit), "remove_temp_files")

\* train(): the intermediate files are removed unless kept, and train returns
TrainEnd ==
  /\ pc = "remove_temp_files"
  /\ TrainStep(IF ~args.keep_temp_files THEN remove_temp_files(MeTraining)
               ELSE Return(MeTraining, None),
               "returned")

\* A call of a method that runs to its end in one step
Call(op, arg, r) ==
  /\ pc = "idle"
  /\ Becomes(r.m)
  /\ lastCall' = Called(op, arg, r)
  /\ pc' = "returned"
  /\ UNCHANGED <<corpus, args>>

\* The caller has taken the outcome of the call and goes on to its next call
Continue ==
  /\ pc = "returned"
  /\ pc' = "idle"
  /\ args' = NoArgs
  /\ events' = <<>>
  /\ lastCall' = NoCall
  /\ UNCHANGED <<corpus, dirExists, files, dictionary, tfidf, model>>

LoadDictionary == Call("load_dictionary", <<>>, load_dictionary(Me))

LoadTfidfModel == Call("load_tfidf_model", <<>>, load_tfidf_model(Me))

LoadLsiModel == Call("load_lsi_model", <<>>, load_lsi_model(Me))

\* Model.topic_vector(lemmas)
TopicVector(lemmas) == Call("topic_vector", lemmas, topic_vector(Me, lemmas))

\* TupleModel.topic_vector(lemmas)
TupleTopicVector(lemmas) ==
  Call("tuple_topic_vector", lemmas, tuple_topic_vector(Me, lemmas))

\* The caller that holds the vector of a topic_vector(lemmas) call asks for
\* the vector of the same lemmas again and for the similarity of the two
SelfSimilarity ==
  /\ pc = "returned"
  /\ lastCall.op = "topic_vector"
  /\ lastCall.exc = ""
  /\ LET r == topic_vector(Me, lastCall.arg)
     IN  /\ Becomes(r.m)
         /\ lastCall' = [op |-> "similarity", arg |-> lastCall.arg,
                         exc |-> r.exc,
                         ret |-> IF r.exc # "" THEN None
                                 ELSE [of |-> <<lastCall.ret, r.ret>>,
                                       is |-> similarity(lastCall.ret, r.ret)],
                         pre |-> EmptySlots]
  /\ pc' = "returned"
  /\ UNCHANGED <<corpus, args>>

Next ==
  \/ ModelInit
  \/ \E k \in BOOLEAN, c \in MinCounts, r \in MaxRatios : TrainBegin(k, c, r)
  \/ TrainDictionary
  \/ TrainPlainCorpus
  \/ TrainTfidfModel
  \/ TrainTfidfCorpus
  \/ TrainLsiModel
  \/ TrainEnd
  \/ LoadDictionary
  \/ LoadTfidfModel
  \/ LoadLsiModel
  \/ \E lemmas \in Queries : TopicVector(lemmas)
  \/ \E lemmas \in Queries : TupleTopicVector(lemmas)
  \/ SelfSimilarity
  \/ Continue

Spec == Init /\ [][Next]_vars

----------------------------------------------------------------------------
(* What the claims are stated with *)

\* The call that has just returned is a call of op
Returned(op) == pc = "returned" /\ lastCall.op = op

\* This step is a call of one of the two topic_vector methods
TopicVectorStep ==
  /\ pc = "idle"
  /\ pc' = "returned"
  /\ lastCall'.op \in {"topic_vector", "tuple_topic_vector"}

\* q is the start of the sequence r
IsPrefix(q, r) == Len(q) <= Len(r) /\ \A i \in DOMAIN q : q[i] = r[i]

\* The file was written by the running or last call and exists
Persisted(ext) == <<"save", ext>> \in Elems(events) /\ files[ext] # Absent

\* The slot of an artifact, and its file
Slot(x) == CASE x = "dict" -> dictionary [] x = "tfidf" -> tfidf [] x = "lsi" -> model

Artifacts == <<"dict", "tfidf", "lsi">>

IsNonEmpty(d) == d # <<>>

\* The documents of the corpus that produce at least one lemma, in order
NonEmptyDocuments == SelectSeq(corpus, IsNonEmpty)

\* The number of documents of the corpus that produce no lemma
EmptyDocuments == Cardinality({i \in DOMAIN corpus : corpus[i] = <<>>})

\* The number of (non-empty) documents the key occurs in
DocFreq(k) == Cardinality({i \in DOMAIN corpus : k \in Elems(corpus[i])})

\* The key stays in the vocabulary under the pruning of train_dictionary
Survives(k, min_count, max_ratio) ==
  /\ DocFreq(k) >= 1
  /\ (min_count > 0 \/ max_ratio < 100) =>
       /\ DocFreq(k) >= min_count
       /\ 100 * DocFreq(k) <= max_ratio * Len(NonEmptyDocuments)

----------------------------------------------------------------------------
(* C1 *)

\* What a complete train() does, in the order of the code
TrainOrder ==
  << <<"makedirs">>, <<"save", "dict">>, <<"save", "corpus">>,
     <<"save", "corpus.index">>, <<"save", "tfidf">>,
     <<"save", "corpus-tfidf">>, <<"save", "corpus-tfidf.index">>,
     <<"save", "lsi">>, <<"remove", "corpus">>, <<"remove", "corpus-tfidf">>,
     <<"remove", "corpus.index">>, <<"remove", "corpus-tfidf.index">> >>

\* C1: train() first makes sure the directory exists and then runs
\* dictionary -> plain corpus -> TF-IDF model -> TF-IDF corpus -> LSI model
\* in this order: what a train() call has done so far is always a start of
\* that order beginning with the directory, a step is only reached with
\* the artifact of the step before it written in this call and on disk,
\* and no file exists without the directory.
C1_TrainOrder ==
  /\ (\E e \in Exts : files[e] # Absent) => dirExists
  /\ lastCall.op = "train" =>
       /\ events # <<>> /\ events[1] = <<"makedirs">>
       /\ dirExists
       /\ IsPrefix(events, TrainOrder)
       /\ pc = "train_dictionary" => Len(events) = 1
       /\ pc = "train_plain_corpus" => Persisted("dict") /\ Len(events) = 2
       /\ pc = "train_tfidf_model" => Persisted("corpus") /\ Len(events) = 4
       /\ pc = "train_tfidf_corpus" => Persisted("tfidf") /\ Len(events) = 5
       /\ pc = "train_lsi_model" => Persisted("corpus-tfidf") /\ Len(events) = 7
       /\ pc = "remove_temp_files" => Persisted("lsi") /\ Len(events) = 8
       /\ (pc = "returned" /\ lastCall.exc = "") =>
            Persisted("lsi") /\ Len(events) >= 8

\* A train() that has run all five steps in a directory it found existing
\* (the instance held the vocabulary of an earlier training)
C1_Witness ==
  /\ Returned("train")
  /\ lastCall.exc = ""
  /\ Len(events) = Len(TrainOrder)
  /\ "dict" \notin lastCall.pre

----------------------------------------------------------------------------
(* C2 *)

PermanentFiles == {"dict", "tfidf", "lsi"}

TempFiles == {"corpus", "corpus.index", "corpus-tfidf", "corpus-tfidf.index"}

\* C2: after train() has returned without an error the .dict, .tfidf and
\* .lsi files exist, and the two corpus files and their two .index files
\* exist exactly when keep_temp_files was True.
C2_FilesAfterTrain ==
  (Returned("train") /\ lastCall.exc = "") =>
     /\ \A e \in PermanentFiles : files[e] # Absent
     /\ \A e \in TempFiles : (files[e] # Absent) <=> args.keep_temp_files

\* A train(keep_temp_files=False) has returned; the files are as claimed
C2_Witness ==
  /\ Returned("train")
  /\ lastCall.exc = ""
  /\ ~args.keep_temp_files
  /\ \A e \in TempFiles : files[e] = Absent
  /\ \A e \in PermanentFiles : files[e] # Absent

----------------------------------------------------------------------------
(* C3 *)

\* No key of the corpus survives the pruning train() was called with
VocabularyEmpty ==
  \A k \in DocKeys : ~Survives(k, args.min_count, args.max_ratio)

\* C3: when the vocabulary is empty after pruning, the train_dictionary
\* step of train() raises before it persists anything: no file and no slot
\* changes, and train() ends there with none of the later steps run.
C3_EmptyVocabulary ==
  [][(pc = "train_dictionary" /\ VocabularyEmpty) =>
       /\ pc' = "returned"
       /\ lastCall'.exc = "AssertionError"
       /\ events' = <<<<"makedirs">>>>
       /\ UNCHANGED <<files, dictionary, tfidf, model>>]_vars

\* train(min_count=2) has ended on the empty vocabulary, with the
\* vocabulary of an earlier training still in the slot and in the file
C3_Witness ==
  /\ Returned("train")
  /\ lastCall.exc = "AssertionError"
  /\ VocabularyEmpty
  /\ args.min_count = 2
  /\ dictionary # None
  /\ files["dict"] = dictionary
  /\ files["corpus"] = Absent
  /\ \A k \in DocKeys : DocFreq(k) <= 1
  /\ dictionary # None
  /\ files["dict"] = dictionary

----------------------------------------------------------------------------
(* C4 *)

\* The artifacts that cannot be had: the slot is empty and the file absent
Missing == {x \in PermanentFiles : Slot(x) = None /\ files[x] = Absent}

\* C4: a topic_vector call with a non-empty argument, made when some
\* artifact is neither in its slot nor on disk, raises: it returns no
\* vector, trains nothing, leaves the directory and every file as they
\* are, and leaves the slot of every missing artifact empty.
C4_MissingArtifact ==
  [][(TopicVectorStep /\ lastCall'.arg # <<>> /\ Missing # {}) =>
       /\ lastCall'.exc # ""
       /\ lastCall'.ret = None
       /\ \A i \in DOMAIN events' : events'[i][1] = "load"
       /\ UNCHANGED <<files, dirExists>>
       /\ ("dict" \in Missing => dictionary' = None)
       /\ ("tfidf" \in Missing => tfidf' = None)
       /\ ("lsi" \in Missing => model' = None)]_vars

\* A fresh instance was asked for a vector with the .lsi file missing: it
\* loaded the two artifacts that were there and then raised
C4_Witness ==
  /\ Returned("topic_vector")
  /\ lastCall.arg # <<>>
  /\ lastCall.exc = "FileNotFoundError"
  /\ events = << <<"load", "dict">>, <<"load", "tfidf">> >>
  /\ model = None
  /\ files["lsi"] = Absent

----------------------------------------------------------------------------
(* C5 *)

\* The artifacts the call has loaded
Loaded(evs) == {x \in PermanentFiles : <<"load", x>> \in Elems(evs)}

\* The artifacts a call of Model.topic_vector gets hold of: in the order
\* vocabulary, weighting model, reduced-space model, those before the first
\* one that is neither in its slot nor on disk (where the call aborts)
GetsTo ==
  {Artifacts[i] : i \in {i \in 1..3 : \A j \in 1..i : Artifacts[j] \notin Missing}}

\* The call reaches Model.topic_vector with a non-empty list
ReachesLoads(call) ==
  /\ call.arg # <<>>
  /\ call.op = "tuple_topic_vector" =>
       ~(call.exc \in {"AssertionError", "ValueError"} /\ call.ret = None)

\* C5: a topic_vector call with a non-empty argument loads an artifact it
\* gets hold of exactly when the slot of that artifact is empty at the time
\* of the call, and loads it once, from the file on disk; a slot that
\* holds an artifact is emptied by nothing but the construction of a new
\* instance, so that over the calls made on one instance each artifact is
\* loaded at most once.
C5_LazyLoad ==
  [][/\ TopicVectorStep =>
          /\ Loaded(events') =
               IF ReachesLoads(lastCall')
               THEN {x \in GetsTo : Slot(x) = None} ELSE {}
          /\ \A x \in PermanentFiles :
               Cardinality({i \in DOMAIN events' : events'[i] = <<"load", x>>}) <= 1
          /\ dictionary' = IF "dict" \in Loaded(events') THEN files["dict"] ELSE dictionary
          /\ tfidf' = IF "tfidf" \in Loaded(events') THEN files["tfidf"] ELSE tfidf
          /\ model' = IF "lsi" \in Loaded(events') THEN files["lsi"] ELSE model
          /\ \A x \in Loaded(events') : files[x] # Absent
     /\ \A x \in PermanentFiles :
          (Slot(x) # None /\ Slot(x)' = None) =>
             (pc = "idle" /\ pc' = "idle" /\ lastCall' = lastCall)]_vars

\* A call that found the vocabulary and the weighting model in their slots
\* and loaded the reduced-space model only
C5_Witness ==
  /\ Returned("topic_vector")
  /\ lastCall.exc = ""
  /\ lastCall.pre = {"lsi"}
  /\ Loaded(events) = {"lsi"}
  /\ model = files["lsi"]

----------------------------------------------------------------------------
(* C6 *)

\* C6: topic_vector([]) of Model and of TupleModel returns the empty Topic
\* Vector at once: nothing is loaded or looked up, no slot, no file and not
\* the directory changes, and no error is raised whatever is on disk.
C6_EmptyInput ==
  [][(TopicVectorStep /\ lastCall'.arg = <<>>) =>
       /\ lastCall'.exc = ""
       /\ lastCall'.ret = EmptyVector
       /\ events' = <<>>
       /\ UNCHANGED <<files, dirExists, dictionary, tfidf, model>>]_vars

\* topic_vector([]) has returned the empty vector with no file on disk
C6_Witness ==
  /\ Returned("topic_vector")
  /\ lastCall.arg = <<>>
  /\ lastCall.ret = EmptyVector
  /\ \A e \in Exts : files[e] = Absent
  /\ dictionary = None

----------------------------------------------------------------------------
(* C7 *)

\* The argument is a list of str (for TupleModel: each with the separator)
StrList(call) ==
  /\ \A i \in DOMAIN call.arg : call.arg[i].t = "str"
  /\ call.op = "tuple_topic_vector" =>
       \A i \in DOMAIN call.arg : \E j \in DOMAIN call.arg[i].s : call.arg[i].s[j] = "/"

\* C7: on a trained model (the three artifacts are in their slots when the
\* call is over), topic_vector of a non-empty list of keys none of which is
\* in the Vocabulary returns the empty Topic Vector without an error, and
\* neither the weighting nor the reduction transform is applied.
C7_UnknownKeys ==
  (/\ pc = "returned"
   /\ lastCall.op \in {"topic_vector", "tuple_topic_vector"}
   /\ lastCall.arg # <<>>
   /\ StrList(lastCall)
   /\ dictionary # None /\ tfidf # None /\ model # None
   /\ \A i \in DOMAIN lastCall.arg :
        lastCall.arg[i].s \notin DOMAIN dictionary.token2id)
  => /\ lastCall.exc = ""
     /\ lastCall.ret = EmptyVector
     /\ <<"tfidf">> \notin Elems(events)
     /\ <<"lsi">> \notin Elems(events)

\* The key of the documents was pruned from the Vocabulary, the query for
\* it and for a key no document has came back empty
C7_Witness ==
  /\ Returned("topic_vector")
  /\ lastCall.arg = <<PyStr(<<"a", "/", "x">>), PyStr(<<"c", "/", "x">>)>>
  /\ DocFreq(<<"a", "/", "x">>) >= 1
  /\ dictionary # None /\ tfidf # None /\ model # None
  /\ <<"a", "/", "x">> \notin DOMAIN dictionary.token2id
  /\ lastCall.ret = EmptyVector
  /\ lastCall.exc = ""

----------------------------------------------------------------------------
(* C8 *)

\* The argument is made of tuples only, or of strs with the separator only
WellFormed(arg) ==
  \/ \A i \in DOMAIN arg : arg[i].t = "tuple"
  \/ \A i \in DOMAIN arg :
        arg[i].t = "str" /\ \E j \in DOMAIN arg[i].s : arg[i].s[j] = "/"

\* C8 as claimed, for TupleModel.topic_vector (the method that tells tuples
\* from strs): every argument that is not well formed makes the call raise
\* before any vocabulary lookup, and no vector is returned.
C8_MalformedRejected ==
  (Returned("tuple_topic_vector") /\ ~WellFormed(lastCall.arg)) =>
     /\ lastCall.exc # ""
     /\ lastCall.ret = None
     /\ <<"doc2bow">> \notin Elems(events)

----------------------------------------------------------------------------
(* C9 *)

\* C9: the Corpus Iterator yields one element per Document with at least
\* one lemma, in Corpus order, and nothing for the others; a Vocabulary
\* built from it (in the slot or in the .dict file) counts as many
\* documents as the Corpus has non-empty Documents.
C9_SkipEmptyDocuments ==
  /\ CorpusIterator(corpus, None) = NonEmptyDocuments
  /\ dictionary # None =>
       dictionary.num_docs = Len(corpus) - EmptyDocuments
  /\ files["dict"] # Absent =>
       files["dict"].num_docs = Len(corpus) - EmptyDocuments

\* train_dictionary has built the Vocabulary of a Corpus with an empty
\* Document between two non-empty ones
C9_Witness ==
  /\ pc = "train_plain_corpus"
  /\ \E i \in 2..(Len(corpus) - 1) : corpus[i] = <<>>
  /\ corpus[1] # <<>> /\ corpus[Len(corpus)] # <<>>
  /\ EmptyDocuments = 1
  /\ dictionary.num_docs = Len(corpus) - 1
  /\ files["dict"] = dictionary

----------------------------------------------------------------------------
(* C10 *)

\* The entry of a sparse vector for index i (0 where it has none)
Entry(vec, i) ==
  IF \E k \in DOMAIN vec : vec[k][1] = i
  THEN vec[CHOOSE k \in DOMAIN vec : vec[k][1] = i][2]
  ELSE 0

\* The vector has an entry for vocabulary indices only, none of them zero
\* and none twice
Sparse(vec, dic) ==
  /\ \A k \in DOMAIN vec :
       /\ \E w \in DOMAIN dic.token2id : dic.token2id[w] = vec[k][1]
       /\ vec[k][2] > 0
  /\ \A k, l \in DOMAIN vec : k < l => vec[k][1] < vec[l][1]

\* C10: when train() has written the plain corpus with the Vocabulary of
\* its first step, the file holds one vector per non-empty Document, as
\* many as the Vocabulary counted documents; the entry of the vector for the
\* index of a key is the number of occurrences of the key in the Document,
\* and keys that are not in the Vocabulary leave no entry.
C10_CountVectors ==
  pc = "train_tfidf_model" =>
    LET plain == files["corpus"].docs
    IN  /\ Len(plain) = Len(NonEmptyDocuments)
        /\ Len(plain) = dictionary.num_docs
        /\ \A j \in DOMAIN plain :
             /\ Sparse(plain[j], dictionary)
             /\ \A w \in DOMAIN dictionary.token2id :
                  Entry(plain[j], dictionary.token2id[w])
                    = Count(NonEmptyDocuments[j], w)

\* The plain corpus of a training that pruned the only key of a Document:
\* its vector is empty, and is there
C10_Witness ==
  /\ pc = "train_tfidf_model"
  /\ \E j \in DOMAIN files["corpus"].docs :
       /\ files["corpus"].docs[j] = <<>>
       /\ NonEmptyDocuments[j] # <<>>
  /\ \E j \in DOMAIN files["corpus"].docs : files["corpus"].docs[j] # <<>>

----------------------------------------------------------------------------
(* C11 *)

\* The keys that occur in some document of the corpus
CorpusKeys == {k \in DocKeys : DocFreq(k) >= 1}

\* C11: when the train_dictionary step of train(min_count, max_ratio) is
\* over, the Vocabulary in the slot is the one in the .dict file, its keys
\* are exactly the keys of the corpus with
\* min_count <= df <= max_ratio * total_documents, their indices are
\* 0..N-1, and with min_count <= 0 and max_ratio >= 1.0 no key of the
\* corpus is missing.
C11_Pruning ==
  pc = "train_plain_corpus" =>
    LET keys == DOMAIN dictionary.token2id
    IN  /\ files["dict"] = dictionary
        /\ keys = {k \in CorpusKeys :
                     /\ args.min_count <= DocFreq(k)
                     /\ 100 * DocFreq(k) <= args.max_ratio * Len(NonEmptyDocuments)}
        /\ {dictionary.token2id[k] : k \in keys} = 0..(Cardinality(keys) - 1)
        /\ (args.min_count <= 0 /\ args.max_ratio >= 100) => keys = CorpusKeys

\* train(max_ratio=0.5) has pruned the key that came first and kept the
\* other on the limit: the key that is left has index 0
C11_Witness ==
  /\ pc = "train_plain_corpus"
  /\ args.max_ratio = 50
  /\ DocFreq(<<"a", "/", "x">>) = 2
  /\ Len(NonEmptyDocuments) = 2
  /\ DOMAIN dictionary.token2id = {<<"b", "/", "x">>}
  /\ dictionary.token2id[<<"b", "/", "x">>] = 0

----------------------------------------------------------------------------
(* C12 *)

\* C12 as claimed: after a train(corpus, min_count=0) with max_ratio left
\* at its default has returned, every key that occurs in some document of
\* the corpus is in the Vocabulary, in the slot and in the .dict file.
C12_AllLemmasIncluded ==
  (/\ Returned("train")
   /\ lastCall.exc = ""
   /\ args.min_count = 0
   /\ args.max_ratio = DEFAULT_MAX_RATIO)
  => /\ CorpusKeys \subseteq DOMAIN dictionary.token2id
     /\ CorpusKeys \subseteq DOMAIN files["dict"].token2id

----------------------------------------------------------------------------
(* The normalizer on its own: a caller turns one (lemma, category) after   *)
(* the other into a key and holds the last call in lastCall                *)

\* The characters of the lemmas: a capital and its small letter, another
\* letter, the hyphen, the space and the underscore
LemmaChars == {"A", "a", "b", "-", " ", "_"}

Lemmas == SeqsUpTo(LemmaChars, MaxLemmaLen)

\* The categories: one that lower() leaves alone and one it would change
Cats == {<<"x">>, <<"A">>}

InitNorm ==
  /\ corpus = <<>>
  /\ dirExists = FALSE
  /\ files = [e \in Exts |-> Absent]
  /\ dictionary = None
  /\ tfidf = None
  /\ model = None
  /\ pc = "idle"
  /\ args = NoArgs
  /\ events = <<>>
  /\ lastCall = NoCall

\* w_from_lemma(lemma, cat) is called and returns
WFromLemma(lemma, cat) ==
  /\ lastCall' = [op |-> "w_from_lemma", arg |-> <<lemma, cat>>, exc |-> "",
                  ret |-> PyStr(w_from_lemma(lemma, cat)), pre |-> {}]
  /\ pc' = "returned"
  /\ UNCHANGED <<corpus, dirExists, files, dictionary, tfidf, model, args,
                 events>>

NextNorm == \E lemma \in Lemmas, cat \in Cats : WFromLemma(lemma, cat)

SpecNorm == InitNorm /\ [][NextNorm]_vars

----------------------------------------------------------------------------
(* C13 *)

NotHyphen(c) == c # "-"

\* The key as the specification describes it: the characters of the lemma
\* that are no hyphen, each lower-cased and a space made an underscore,
\* then "/", then the category
ExpectedKey(lemma, cat) ==
  LET kept == SelectSeq(lemma, NotHyphen)
  IN  [i \in 1..Len(kept) |->
         CASE kept[i] = " " -> "_"
           [] kept[i] = "A" -> "a"
           [] OTHER -> kept[i]] \o <<"/">> \o cat

\* C13: for every lemma and category the normalizer returns, without an
\* error, the lower-cased lemma with every "-" removed and every " "
\* replaced by "_", followed by "/" and the category unchanged.
C13_Normalizer ==
  lastCall.op = "w_from_lemma" =>
    /\ lastCall.exc = ""
    /\ lastCall.ret = PyStr(ExpectedKey(lastCall.arg[1], lastCall.arg[2]))

\* ("A- ", "A") has become "a_/A"
C13_Witness ==
  /\ lastCall.op = "w_from_lemma"
  /\ lastCall.arg = << <<"A", "-", " ">>, <<"A">> >>
  /\ lastCall.ret = PyStr(<<"a", "_", "/", "A">>)

----------------------------------------------------------------------------
(* C14 *)

\* The lemma part of a key made with category cat
LemmaPart(key, cat) == SubSeq(key, 1, Len(key) - Len(cat) - 1)

\* The letter in its other case
OtherCase(c) == CASE c = "A" -> "a" [] c = "a" -> "A" [] OTHER -> c

\* The lemmas that differ from the lemma in the case of one letter or in
\* one hyphen more
NearVariants(lemma) ==
  {[lemma EXCEPT ![i] = OtherCase(lemma[i])] : i \in DOMAIN lemma}
  \cup {SubSeq(lemma, 1, i - 1) \o <<"-">> \o SubSeq(lemma, i, Len(lemma)) :
           i \in 1..(Len(lemma) + 1)}

\* C14: normalizing the lemma part of a key the normalizer has returned,
\* with the same category, gives the same key; calling it again with the
\* same arguments gives the same key; a lemma that differs in the case of
\* a letter or in a hyphen gives the same key (and so, step by step, do
\* all lemmas that differ in case and hyphens only).
C14_Idempotent ==
  lastCall.op = "w_from_lemma" =>
    LET lemma == lastCall.arg[1]
        cat   == lastCall.arg[2]
        key   == lastCall.ret.s
    IN  /\ w_from_lemma(LemmaPart(key, cat), cat) = key
        /\ w_from_lemma(lemma, cat) = key
        /\ \A v \in NearVariants(lemma) : w_from_lemma(v, cat) = key

\* ("A-b", "x") has become "ab/x", as ("ab", "x") does
C14_Witness ==
  /\ lastCall.op = "w_from_lemma"
  /\ lastCall.arg = << <<"A", "-", "b">>, <<"x">> >>
  /\ lastCall.ret = PyStr(<<"a", "b", "/", "x">>)
  /\ w_from_lemma(<<"a", "b">>, <<"x">>) = lastCall.ret.s
  /\ <<"a", "-", "b">> \in NearVariants(lastCall.arg[1])

----------------------------------------------------------------------------
(* C15 *)

\* The three artifacts are on disk and in the slots
Trained ==
  /\ \A x \in PermanentFiles : files[x] # Absent
  /\ dictionary # None /\ tfidf # None /\ model # None

\* C15 as claimed: on a trained model, for every non-empty list of lemmas
\* the similarity of the vectors of two topic_vector calls for the list is
\* above 0.999.
C15_SelfSimilarity ==
  (Returned("similarity") /\ Trained /\ lastCall.arg # <<>>) =>
     /\ lastCall.exc = ""
     /\ lastCall.ret.is = [permille |-> 1000]

\* C15, amended: on a trained model, for every non-empty list of lemmas the
\* two topic_vector calls return the same vector, and the similarity of the
\* two is above 0.999 when the vector is not the empty Topic Vector; it is
\* 0.0 when the vector is empty.
C15_SelfSimilarityNonEmpty ==
  (Returned("similarity") /\ Trained /\ lastCall.arg # <<>>) =>
     /\ lastCall.exc = ""
     /\ lastCall.ret.of[1] = lastCall.ret.of[2]
     /\ lastCall.ret.of[1] # EmptyVector => lastCall.ret.is = [permille |-> 1000]
     /\ lastCall.ret.of[1] = EmptyVector => lastCall.ret.is = [permille |-> 0]

\* The similarity of a non-empty vector with the vector of a second call
C15_Witness ==
  /\ Returned("similarity")
  /\ Trained
  /\ lastCall.arg # <<>>
  /\ lastCall.ret.of[1] # EmptyVector
  /\ lastCall.ret.is = [permille |-> 1000]

----------------------------------------------------------------------------
(* C16 *)

\* C16: a TupleModel.topic_vector call with a list of (lemma, category)
\* tuples looks up, for each tuple, the key a TupleDocument yields for the
\* tuple in training, and has the outcome (the vector or the error, and
\* the slots it leaves) of TupleModel.topic_vector called with the list of
\* these keys in the same order.
C16_SameNormalizer ==
  [][(/\ pc = "idle"
      /\ pc' = "returned"
      /\ lastCall'.op = "tuple_topic_vector"
      /\ \A i \in DOMAIN lastCall'.arg : lastCall'.arg[i].t = "tuple")
     => LET keys == TupleDocument(lastCall'.arg)
            r    == tuple_topic_vector(Me, [i \in DOMAIN keys |-> PyStr(keys[i])])
        IN  /\ TupleKeys(lastCall'.arg) = [i \in DOMAIN keys |-> PyStr(keys[i])]
            /\ lastCall'.ret = r.ret
            /\ lastCall'.exc = r.exc
            /\ dictionary' = r.m.dictionary
            /\ tfidf' = r.m.tfidf
            /\ model' = r.m.model
            /\ events' = r.m.events]_vars

\* The query [("A-", "x")] has returned the vector of the key "a/x", which
\* the documents of the corpus hold
C16_Witness ==
  /\ Returned("tuple_topic_vector")
  /\ lastCall.arg = <<PyTuple(<<"A", "-">>, <<"x">>)>>
  /\ lastCall.exc = ""
  /\ lastCall.ret # EmptyVector
  /\ lastCall.ret.of[1][1] = dictionary.token2id[<<"a", "/", "x">>]

----------------------------------------------------------------------------
(* The training steps called one by one: besides train(), the caller calls *)
(* the steps on their own, on the instance that trained or on a fresh one  *)

\* model.train_plain_corpus(CorpusIterator(corpus, model._dictionary))
TrainPlainCorpusCall ==
  Call("train_plain_corpus", <<>>, train_plain_corpus(Me, corpus, dictionary))

\* model.train_tfidf_model()
TrainTfidfModelCall == Call("train_tfidf_model", <<>>, train_tfidf_model(Me))

\* model.train_tfidf_corpus()
TrainTfidfCorpusCall == Call("train_tfidf_corpus", <<>>, train_tfidf_corpus(Me))

\* model.train_lsi_model()
TrainLsiModelCall ==
  \E fit \in LsiFitOutcomes(IF files["corpus-tfidf"] = Absent THEN <<>>
                            ELSE files["corpus-tfidf"].docs) :
    Call("train_lsi_model", <<>>, train_lsi_model(Me, fit))

NextSteps ==
  \/ ModelInit
  \/ \E k \in BOOLEAN, c \in MinCounts, r \in MaxRatios : TrainBegin(k, c, r)
  \/ TrainDictionary
  \/ TrainPlainCorpus
  \/ TrainTfidfModel
  \/ TrainTfidfCorpus
  \/ TrainLsiModel
  \/ TrainEnd
  \/ TrainPlainCorpusCall
  \/ TrainTfidfModelCall
  \/ TrainTfidfCorpusCall
  \/ TrainLsiModelCall
  \/ Continue

SpecSteps == Init /\ [][NextSteps]_vars

----------------------------------------------------------------------------
(* C17 *)

\* The file holds an artifact as the step that writes it leaves it
Intact(ext) == files[ext] # Absent /\ files[ext] # [truncated |-> TRUE]

\* The prerequisites of a step are on disk (for train_lsi_model: a weighted
\* corpus with a non-zero weight, which an LSI model can be fitted from)
Prerequisites(op) ==
  CASE op = "train_plain_corpus" -> Intact("dict")
    [] op = "train_tfidf_model" -> Intact("dict")
    [] op = "train_tfidf_corpus" ->
         Intact("tfidf") /\ Intact("corpus") /\ Intact("corpus.index")
    [] op = "train_lsi_model" ->
         /\ Intact("dict") /\ Intact("corpus-tfidf")
         /\ Intact("corpus-tfidf.index")
         /\ \E d \in DOMAIN files["corpus-tfidf"].docs :
              files["corpus-tfidf"].docs[d] # <<>>

\* The file a step writes
ArtifactOf(op) ==
  CASE op = "train_plain_corpus" -> "corpus"
    [] op = "train_tfidf_model" -> "tfidf"
    [] op = "train_tfidf_corpus" -> "corpus-tfidf"
    [] op = "train_lsi_model" -> "lsi"

\* This step is a call of step op on an instance with empty slots, with
\* the prerequisites of op on disk
StandaloneStep(op) ==
  /\ pc = "idle"
  /\ pc' = "returned"
  /\ lastCall'.op = op
  /\ dictionary = None /\ tfidf = None /\ model = None
  /\ Prerequisites(op)

\* The step has succeeded and has written its artifact
Succeeds(op) ==
  /\ lastCall'.exc = ""
  /\ <<"save", ArtifactOf(op)>> \in Elems(events')
  /\ Intact(ArtifactOf(op))'

\* C17 as claimed: each of train_plain_corpus, train_tfidf_model,
\* train_tfidf_corpus and train_lsi_model, called on its own on a fresh
\* instance with its prerequisites on disk, succeeds and persists its
\* artifact.
C17_StandaloneSteps ==
  [][\A op \in {"train_plain_corpus", "train_tfidf_model",
                 "train_tfidf_corpus", "train_lsi_model"} :
       StandaloneStep(op) => Succeeds(op)]_vars

\* The same for the three steps that load what they need
LoadingStepsSucceed ==
  [][\A op \in {"train_tfidf_model", "train_tfidf_corpus", "train_lsi_model"} :
       StandaloneStep(op) => Succeeds(op)]_vars

----------------------------------------------------------------------------
(* Inference by several instances: independent Model instances of one name *)
(* and directory, trained before, answer topic_vector calls.  The calls    *)
(* are interleaved at the steps of Model.topic_vector: the three lazy      *)
(* loads and the transformation.  The slots, the position, the events and  *)
(* the call are kept per instance.                                         *)

Instances == {1, 2}

\* Model.train as a whole, the LSI fit succeeding or not: each step runs
\* on what the step before it left, unless a step has raised
train(m, corp, keep_temp_files, min_count, max_ratio, fit) ==
  CHOOSE r \in
    {IF r5.exc # "" \/ keep_temp_files THEN r5 ELSE remove_temp_files(r5.m) :
     r5 \in
       {IF r4.exc # "" THEN r4 ELSE train_lsi_model(r4.m, fit) :
        r4 \in
          {IF r3.exc # "" THEN r3 ELSE train_tfidf_corpus(r3.m) :
           r3 \in
             {IF r2.exc # "" THEN r2 ELSE train_tfidf_model(r2.m) :
              r2 \in
                {IF r1.exc # "" THEN r1
                 ELSE train_plain_corpus(r1.m, corp, r1.m.dictionary) :
                 r1 \in {train_dictionary(MakeDirs(m), corp, min_count,
                                          max_ratio)}}}}}} : TRUE

\* A new instance on a name and directory nothing was written to
NewModel == [dirExists |-> FALSE, files |-> [e \in Exts |-> Absent],
             dictionary |-> None, tfidf |-> None, model |-> None,
             dimensions |-> DEFAULT_DIMENSIONS, events |-> <<>>]

\* The state of instance i as a method of it finds it
MeOf(i) == [dirExists |-> dirExists, files |-> files,
            dictionary |-> dictionary[i], tfidf |-> tfidf[i],
            model |-> model[i], dimensions |-> DEFAULT_DIMENSIONS,
            events |-> events[i]]

\* The state a method of instance i leaves becomes the state
BecomesOf(i, m) ==
  /\ dirExists' = m.dirExists
  /\ files' = m.files
  /\ dictionary' = [dictionary EXCEPT ![i] = m.dictionary]
  /\ tfidf' = [tfidf EXCEPT ![i] = m.tfidf]
  /\ model' = [model EXCEPT ![i] = m.model]
  /\ events' = [events EXCEPT ![i] = m.events]

\* The lists of keys the instances are asked about
InferenceQueries ==
  {q \in Queries : \A i \in DOMAIN q : q[i].t = "str"}

\* The directory after a train(corpus, min_count=0) that succeeded, as in
\* test_train, and fresh instances
InitInference ==
  /\ corpus \in Corpora
  /\ \E t \in {train(NewModel, corpus, FALSE, 0, DEFAULT_MAX_RATIO, TRUE)} :
       /\ t.exc = ""
       /\ files = t.m.files
       /\ dirExists = t.m.dirExists
  /\ dictionary = [i \in Instances |-> None]
  /\ tfidf = [i \in Instances |-> None]
  /\ model = [i \in Instances |-> None]
  /\ pc = [i \in Instances |-> "idle"]
  /\ args = NoArgs
  /\ events = [i \in Instances |-> <<>>]
  /\ lastCall = [i \in Instances |-> NoCall]

\* Instance i is asked for the vector of lemmas; "alone" is the outcome the
\* call has when nothing else runs until it returns
TopicVectorBegin(i, lemmas) ==
  /\ pc[i] = "idle"
  /\ LET alone == topic_vector([MeOf(i) EXCEPT !.events = <<>>], lemmas)
     IN  lastCall' = [lastCall EXCEPT ![i] =
                       [op |-> "topic_vector", arg |-> lemmas,
                        exc |-> "",
                        ret |-> IF lemmas = <<>> THEN EmptyVector ELSE None,
                        alone |-> [exc |-> alone.exc, ret |-> alone.ret]]]
  /\ pc' = [pc EXCEPT ![i] = IF lemmas = <<>> THEN "returned"
                             ELSE "load_dictionary"]
  /\ events' = [events EXCEPT ![i] = <<>>]
  /\ UNCHANGED <<corpus, dirExists, files, dictionary, tfidf, model, args>>

\* A step of the call of instance i with outcome r
InferenceStep(i, r, next) ==
  /\ BecomesOf(i, r.m)
  /\ pc' = [pc EXCEPT ![i] = IF r.exc # "" THEN "returned" ELSE next]
  /\ lastCall' = [lastCall EXCEPT ![i].exc = r.exc,
                                   ![i].ret = IF next = "returned" THEN r.ret
                                              ELSE None]
  /\ UNCHANGED <<corpus, args>>

\* if self._dictionary is None: self.load_dictionary()
StepLoadDictionary(i) ==
  /\ pc[i] = "load_dictionary"
  /\ InferenceStep(i, IF dictionary[i] = None THEN load_dictionary(MeOf(i))
                      ELSE Return(MeOf(i), None), "load_tfidf_model")

\* if self._tfidf is None: self.load_tfidf_model()
StepLoadTfidfModel(i) ==
  /\ pc[i] = "load_tfidf_model"
  /\ InferenceStep(i, IF tfidf[i] = None THEN load_tfidf_model(MeOf(i))
                      ELSE Return(MeOf(i), None), "load_lsi_model")

\* if self._model is None: self.load_lsi_model()
StepLoadLsiModel(i) ==
  /\ pc[i] = "load_lsi_model"
  /\ InferenceStep(i, IF model[i] = None THEN load_lsi_model(MeOf(i))
                      ELSE Return(MeOf(i), None), "transform")

\* The rest of topic_vector, the three slots being filled: doc2bow, the
\* empty bag, tfidf and lsi
StepTransform(i) ==
  /\ pc[i] = "transform"
  /\ InferenceStep(i, topic_vector(MeOf(i), lastCall[i].arg), "returned")

\* The caller of instance i has taken the outcome
ContinueOf(i) ==
  /\ pc[i] = "returned"
  /\ pc' = [pc EXCEPT ![i] = "idle"]
  /\ lastCall' = [lastCall EXCEPT ![i] = NoCall]
  /\ events' = [events EXCEPT ![i] = <<>>]
  /\ UNCHANGED <<corpus, dirExists, files, dictionary, tfidf, model, args>>

NextInference ==
  \E i \in Instances :
    \/ \E lemmas \in InferenceQueries : TopicVectorBegin(i, lemmas)
    \/ StepLoadDictionary(i)
    \/ StepLoadTfidfModel(i)
    \/ StepLoadLsiModel(i)
    \/ StepTransform(i)
    \/ ContinueOf(i)

SpecInference == InitInference /\ [][NextInference]_vars

----------------------------------------------------------------------------
(* C18 *)

\* C18: while independent instances answer topic_vector calls over a
\* trained directory, in any interleaving of their steps, no step creates,
\* changes or deletes a file, and every call that returns has the outcome
\* (the vector, or the error) it has when it runs alone.
C18_ConcurrentInference ==
  [][/\ UNCHANGED <<files, dirExists>>
     /\ \A i \in Instances :
          pc'[i] = "returned" =>
            /\ lastCall'[i].exc = lastCall'[i].alone.exc
            /\ lastCall'[i].ret = lastCall'[i].alone.ret]_vars

\* Instance 1 has returned a vector while the call of instance 2 is
\* between its loads
C18_Witness ==
  /\ pc[1] = "returned"
  /\ lastCall[1].exc = ""
  /\ lastCall[1].ret # EmptyVector
  /\ pc[2] = "load_lsi_model"
  /\ tfidf[2] # None
  /\ model[2] = None

----------------------------------------------------------------------------
(* tokenmodel.py: TokenDocument and ParsedDocument.  The tokenizer and the *)
(* parser are outside this code: a text is given as the sentences the      *)
(* tokenizer makes of it, each a list of tokens together with what the     *)
(* parser makes of that list: a tree, or None when it finds no derivation. *)
(* gen_tuples is a generator: it reads the text sentence by sentence.      *)

\* The tokens: a word with two meanings, an unknown word, a person name,
\* an entity, a company and a punctuation mark
Toks ==
  {[kind |-> "WORD", txt |-> <<"A">>,
    val |-> <<[stofn |-> <<"a">>, ordfl |-> <<"x">>],
              [stofn |-> <<"b">>, ordfl |-> <<"x">>]>>],
   [kind |-> "WORD", txt |-> <<"c">>, val |-> <<>>],
   [kind |-> "PERSON", txt |-> <<"A">>,
    val |-> <<[name |-> <<"A">>, gender |-> <<"x">>]>>],
   [kind |-> "ENTITY", txt |-> <<"b">>, val |-> <<>>],
   [kind |-> "COMPANY", txt |-> <<"b">>, val |-> <<>>],
   [kind |-> "PUNCTUATION", txt |-> <<"-">>, val |-> <<>>]}

\* The terminal the parser makes of a token in a tree: for a word with
\* several meanings the one that fits the sentence, here the last
Terminal(t) ==
  CASE t.kind = "WORD" /\ t.val # <<>> ->
         <<PyTuple(t.val[Len(t.val)].stofn, t.val[Len(t.val)].ordfl)>>
    [] t.kind = "WORD" /\ t.val = <<>> -> <<PyTuple(t.txt, <<"e">>)>>
    [] t.kind = "PERSON" -> <<PyTuple(t.val[1].name, <<"p">>)>>
    [] t.kind \in {"ENTITY", "COMPANY"} -> <<PyTuple(t.txt, <<"e">>)>>
    [] OTHER -> <<>>

\* The sequences of a sequence of sequences, one after the other
RECURSIVE Flatten(_)
Flatten(qs) == IF qs = <<>> THEN <<>> ELSE Head(qs) \o Flatten(Tail(qs))

\* Greynir.parse_tokens(sent) where the parser finds a derivation
ParseTree(toks) ==
  [lemmas_and_cats |-> Flatten([i \in DOMAIN toks |-> Terminal(toks[i])])]

\* TokenDocument.lemmatize on one token
LemmatizeToken(t) ==
  IF t.kind = "WORD"
  THEN IF t.val # <<>> THEN <<PyTuple(t.val[1].stofn, t.val[1].ordfl)>>
       ELSE <<PyTuple(t.txt, <<"e", "n", "t", "i", "t", "y">>)>>
  ELSE IF t.kind = "PERSON"
  THEN <<PyTuple(t.val[1].name,
                 <<"p", "e", "r", "s", "o", "n", "_">> \o t.val[1].gender)>>
  ELSE IF t.kind = "ENTITY" \/ t.kind = "COMPANY"
  THEN <<PyTuple(t.txt, <<"e", "n", "t", "i", "t", "y">>)>>
  ELSE <<>>

\* TokenDocument.lemmatize(sent)
token_lemmatize(sent) ==
  Flatten([i \in DOMAIN sent.toks |-> LemmatizeToken(sent.toks[i])])

\* ParsedDocument.lemmatize that has nothing for a sentence without a
\* derivation
parsed_lemmatize_NoFallback(sent) ==
  IF sent.tree = None THEN <<>> ELSE sent.tree.lemmas_and_cats

\* ParsedDocument.lemmatize(sent)
parsed_lemmatize(sent) ==
  IF sent.tree = None THEN token_lemmatize(sent)
  ELSE sent.tree.lemmas_and_cats

\* The sentences and tokens of a text, counted together
RECURSIVE TextSize(_)
TextSize(text) ==
  IF text = <<>> THEN 0 ELSE 1 + Len(Head(text).toks) + TextSize(Tail(text))

\* A ParsedDocument is made of a text; gen_tuples is a generator that has
\* read nothing of it yet (corpus holds the sentences read so far)
InitDocument ==
  /\ corpus = <<>>
  /\ dirExists = FALSE
  /\ files = [e \in Exts |-> Absent]
  /\ dictionary = None
  /\ tfidf = None
  /\ model = None
  /\ pc = "gen_tuples"
  /\ args = NoArgs
  /\ events = <<>>
  /\ lastCall = [op |-> "gen_tuples", arg |-> <<>>, exc |-> "",
                 ret |-> [tuples |-> <<>>], pre |-> {}]

\* gen_tuples takes the next sentence of the text from the tokenizer, a
\* list of tokens the parser finds a derivation for or not, and yields
\* from self.lemmatize(sent)
GenTuples ==
  /\ pc = "gen_tuples"
  /\ \E toks \in SeqsUpTo(Toks, MaxDocSize - 1 - TextSize(corpus)) \ {<<>>} :
       \E tree \in {None, ParseTree(toks)} :
         LET sent == [toks |-> toks, tree |-> tree]
         IN  /\ corpus' = Append(corpus, sent)
             /\ lastCall' = [lastCall EXCEPT !.ret.tuples =
                               @ \o parsed_lemmatize(sent)]
  /\ UNCHANGED <<dirExists, files, dictionary, tfidf, model, pc, args,
                 events>>

NextDocument == GenTuples

SpecDocument == InitDocument /\ [][NextDocument]_vars

----------------------------------------------------------------------------
(* C19 *)

\* What the sentence gives on its own: the lemmas of the token lemmatizer
\* when the parser has no derivation for it, else the terminals of its tree
Contribution(sent) ==
  IF sent.tree = None THEN token_lemmatize(sent) ELSE sent.tree.lemmas_and_cats

\* The position in the tuples of a text before which sentence i starts
RECURSIVE StartOf(_, _)
StartOf(text, i) ==
  IF i = 1 THEN 0 ELSE StartOf(text, i - 1) + Len(Contribution(text[i - 1]))

\* C19: the tuples of a parse-tree-backed Document are, after every
\* sentence read, the contributions of the sentences read so far in
\* sentence order: every sentence has its own stretch
\* of the tuples, right after the stretches of the sentences before it,
\* holding the token lemmatizer's lemmas if the sentence has no derivation
\* and the terminals of its tree if it has one, and there is nothing else;
\* so a sentence without derivation takes nothing from another sentence.
C19_PerSentenceFallback ==
  lastCall.op = "gen_tuples" =>
    LET tuples == lastCall.ret.tuples
    IN  /\ lastCall.exc = ""
        /\ Len(tuples) = StartOf(corpus, Len(corpus) + 1)
        /\ \A i \in DOMAIN corpus :
             SubSeq(tuples, StartOf(corpus, i) + 1,
                    StartOf(corpus, i) + Len(Contribution(corpus[i])))
               = Contribution(corpus[i])

\* A text of three sentences, the second without a derivation: the
\* tuples are the terminal of the first, the fallback lemma of the second
\* and the terminal of the third
C19_Witness ==
  /\ lastCall.op = "gen_tuples"
  /\ Len(corpus) = 3
  /\ corpus[1].tree # None /\ corpus[2].tree = None /\ corpus[3].tree # None
  /\ Len(lastCall.ret.tuples) = 3
  /\ lastCall.ret.tuples[1] = PyTuple(<<"b">>, <<"x">>)
  /\ lastCall.ret.tuples[2] = PyTuple(<<"a">>, <<"x">>)
  /\ lastCall.ret.tuples[3] = PyTuple(<<"b">>, <<"x">>)

----------------------------------------------------------------------------
(* C20 *)

\* C20: between the calls on one instance every slot that is not empty
\* holds the artifact that is in the file of that name; so after train()
\* has run again on an instance that has answered a topic_vector query,
\* the LSI model the next queries use is the one of the latest training.
C20_SlotsHoldPersisted ==
  pc \in {"idle", "returned"} =>
    \A i \in DOMAIN Artifacts :
      Slot(Artifacts[i]) # None =>
        /\ files[Artifacts[i]] # Absent
        /\ Slot(Artifacts[i]) = files[Artifacts[i]]

----------------------------------------------------------------------------
(* Queries on a trained instance: test_train trains the model and then    *)
(* asks it for the vectors of two lists of keys and compares them.        *)

\* The keys the instance is asked about: the keys of the documents and a
\* key no document has
KeyQueries ==
  SeqsUpTo({PyStr(k) : k \in DocKeys \cup {<<"c", "/", "x">>}}, MaxQueryLen)

\* model.train(corpus, ...) has returned on a new instance
InitQuery ==
  /\ corpus \in Corpora
  /\ \E min_count \in MinCounts, max_ratio \in MaxRatios :
       \E t \in {train(NewModel, corpus, FALSE, min_count, max_ratio, TRUE)} :
         /\ t.exc = ""
         /\ files = t.m.files
         /\ dirExists = t.m.dirExists
         /\ dictionary = t.m.dictionary
         /\ tfidf = t.m.tfidf
         /\ model = t.m.model
  /\ pc = "idle"
  /\ args = NoArgs
  /\ events = <<>>
  /\ lastCall = NoCall

\* v1 = model.topic_vector(lemmas)
FirstQuery(lemmas) == Call("topic_vector", lemmas, topic_vector(Me, lemmas))

\* v2 = model.topic_vector(lemmas), the caller holding the outcome of the
\* first query
SecondQuery(lemmas) ==
  /\ pc = "returned"
  /\ lastCall.op = "topic_vector"
  /\ LET r == topic_vector(Me, lemmas)
     IN  /\ Becomes(r.m)
         /\ lastCall' = [op |-> "topic_vectors",
                         arg |-> <<lastCall.arg, lemmas>>,
                         exc |-> r.exc,
                         ret |-> [first |-> [exc |-> lastCall.exc,
                                             ret |-> lastCall.ret],
                                  second |-> [exc |-> r.exc, ret |-> r.ret]],
                         pre |-> EmptySlots]
  /\ pc' = "returned"
  /\ UNCHANGED <<corpus, args>>

NextQuery ==
  \/ ModelInit
  \/ \E lemmas \in KeyQueries : FirstQuery(lemmas)
  \/ \E lemmas \in KeyQueries : SecondQuery(lemmas)
  \/ Continue

SpecQuery == InitQuery /\ [][NextQuery]_vars

----------------------------------------------------------------------------
(* C21 *)

\* The keys of the Vocabulary on disk
Vocabulary == DOMAIN files["dict"].token2id

\* How often each key of the Vocabulary is in the list
InVocabulary(lemmas) ==
  [k \in Vocabulary |->
     Cardinality({i \in DOMAIN lemmas : lemmas[i].s = k})]

\* C21: on a trained instance, two topic_vector calls with lists of keys
\* that have the same keys of the Vocabulary the same number of times,
\* whatever their order and whatever keys outside the Vocabulary they have,
\* return the same Topic Vector and neither raises; so do two calls with
\* the same list.
C21_DependsOnMultiset ==
  (/\ Returned("topic_vectors")
   /\ InVocabulary(lastCall.arg[1]) = InVocabulary(lastCall.arg[2])) =>
     /\ lastCall.ret.first.exc = ""
     /\ lastCall.ret.second.exc = ""
     /\ lastCall.ret.first.ret = lastCall.ret.second.ret

\* Two lists that differ in a key outside the Vocabulary and have a key of
\* the Vocabulary: the vector, which is not empty, is the same
C21_Witness ==
  /\ Returned("topic_vectors")
  /\ lastCall.arg[1] # lastCall.arg[2]
  /\ Elems(lastCall.arg[1]) # Elems(lastCall.arg[2])
  /\ \E i \in DOMAIN lastCall.arg[1] : lastCall.arg[1][i].s \in Vocabulary
  /\ InVocabulary(lastCall.arg[1]) = InVocabulary(lastCall.arg[2])
  /\ lastCall.ret.first.ret # EmptyVector
  /\ lastCall.ret.first.ret = lastCall.ret.second.ret

\* The same for two keys of the Vocabulary in the two orders
C21_WitnessOrder ==
  /\ Returned("topic_vectors")
  /\ Len(lastCall.arg[1]) = 2
  /\ lastCall.arg[1][1] # lastCall.arg[1][2]
  /\ \A i \in 1..2 : lastCall.arg[1][i].s \in Vocabulary
  /\ lastCall.arg[2] = <<lastCall.arg[1][2], lastCall.arg[1][1]>>
  /\ lastCall.ret.first.ret # EmptyVector
  /\ lastCall.ret.first.ret = lastCall.ret.second.ret

====
